---- MODULE Spec2Model ----
(***************************************************************************)
(* A model of generic-array's construction / destructuring layer           *)
(* (src/src/lib.rs): FromIterator::from_iter, generate, inverted_zip,      *)
(* inverted_zip2, map, zip, fold and from_exact_iter, each run element by  *)
(* element over an ArrayBuilder and/or ArrayConsumer, with the user        *)
(* function f and the external iterator as untrusted code that may fail at *)
(* any call; and the slice conversions from_slice, from_mut_slice and      *)
(* TryFrom.                                                                *)
(*                                                                         *)
(* Every element is a record [obj, val]: obj is the identity of the value  *)
(* (who created it and as which one), val its payload.  Destruction is a   *)
(* log of destroy events, so leaks and double destruction are countable.   *)
(* Indices are 0-based as in the source; TLA+ sequences are 1-based, so    *)
(* slot i of an array is array[i + 1].                                     *)
(***************************************************************************)
EXTENDS Integers, Sequences, FiniteSets, TLC

\* Largest array length N::USIZE explored.
MaxN == 3

Lengths == 0..MaxN

\* Payloads of the source element type T and of the produced type U.  The
\* code is generic in both and never inspects a payload.
T == {"a", "b"}
U == {"x", "y"}

VARIABLES
    op,          \* the operation being run
    N,           \* N::USIZE
    pc,          \* position in the operation's code
    iter,        \* the external iterator handed to from_iter / from_exact_iter
    destination, \* the ArrayBuilder
    source,      \* the ArrayConsumer of map and fold
    left,        \* inverted_zip: ArrayConsumer of lhs
    right,       \* inverted_zip: ArrayConsumer of self
    init,        \* fold's initial accumulator
    slice,       \* the slice handed to from_slice, from_mut_slice and try_from
    acc,         \* fold's accumulator
    args,        \* the values currently owned by the running call of f
    calls,       \* the invocations of f so far: [args, ret]
    destroyed,   \* the destroy events so far: [by, obj]
    cleanup,     \* the values still to be dropped on the current exit path
    exitAs,      \* how the operation ends once the exit path is done
    outcome,     \* "running", "ok", "none", "err", "abort" or "failed"
    result,      \* the returned container (fold: the returned accumulator)
    panicMsg     \* the arguments of from_iter_length_fail

vars == <<op, N, pc, init, slice, iter, destination, source, left, right, acc, args, calls,
          destroyed, cleanup, exitAs, outcome, result, panicMsg>>

----------------------------------------------------------------------------
\* Values

Elem(class, i, v) == [obj |-> <<class, i>>, val |-> v]

\* An uninitialised slot of the builder's storage.
Uninit == Elem("uninit", 0, "?")

\* A failed call of f, and the end of an iterator.
Fail == Elem("fail", 0, "?")
None == Elem("none", 0, "?")

NoAcc == Elem("acc", 0, "?")

\* No length panic was raised.
NoPanic == [received |-> -1, expected |-> -1]

SeqsUpTo(S, n) == UNION {[1..k -> S] : k \in 0..n}

\* A container of Len(vals) live elements, element i being <<class, i>>.
Container(class, vals) == [j \in 1..Len(vals) |-> Elem(class, j - 1, vals[j])]

----------------------------------------------------------------------------
\* ArrayBuilder and ArrayConsumer (crate::internal)

\* ArrayBuilder::new with the cursor of the slot iterator of iter_position.
NewBuilder(n) ==
    [array |-> [j \in 1..n |-> Uninit], position |-> 0, iter |-> 0, inner |-> FALSE]

\* ArrayConsumer::new with the cursor of the slot iterator of iter_position.
NewConsumer(arr) == [array |-> arr, position |-> 0, iter |-> 0]

\* into_inner: the storage becomes the container, the builder is forgotten.
BuilderIntoInner(b) == [b EXCEPT !.inner = TRUE]

\* Drop for ArrayBuilder: destroys slots [0, position) in forward order,
\* unless into_inner already took the storage.
BuilderDrop(b) ==
    IF b.inner THEN <<>>
    ELSE [j \in 1..b.position |->
            [by |-> "Builder",
             obj |-> IF j <= Len(b.array) THEN b.array[j].obj ELSE Uninit.obj]]

\* Drop for ArrayConsumer: destroys slots [position, N) in forward order.
ConsumerDrop(c, name) ==
    [j \in 1..(Len(c.array) - c.position) |->
        [by |-> name, obj |-> c.array[c.position + j].obj]]

\* MaybeUninit::write into the slot the slot iterator handed out last.
SlotWrite(b, v) == [b EXCEPT !.array[b.iter] = v]

\* The next slot of destination_iter, if any.
SlotIterDone(b) == b.iter = Len(b.array)
SlotIterNext(b) == [b EXCEPT !.iter = @ + 1]

----------------------------------------------------------------------------
\* The external iterator

NoIter == [items |-> <<>>, endless |-> FALSE, pulls |-> 0, failed |-> FALSE]

\* What the k-th call of next() returns (k counted from 0) when it does not fail.
IterItem(it, k) ==
    IF k < Len(it.items) THEN it.items[k + 1]
    ELSE IF it.endless THEN Elem("item", k, "a")
    ELSE None

\* The iterator yields exactly n items and then ends, without failing.
YieldsExactly(it, n) == ~it.endless /\ Len(it.items) = n

----------------------------------------------------------------------------
\* Exit paths: the values dropped, in order, before the operation ends.

ConsumerFrames ==
    CASE op = "map" -> <<"source">>
      [] op = "fold" -> <<"source">>
      [] op = "zip" -> <<"right", "left">>
      [] op = "zip2" -> <<"left", "right">>
      [] OTHER -> <<>>

Exit(frames, as) ==
    /\ pc' = "exit"
    /\ cleanup' = frames
    /\ exitAs' = as

\* inverted_zip(self, lhs, f): left consumes lhs, right consumes self.
InvertedZip(self_, lhs) ==
    /\ left = NewConsumer(lhs)
    /\ right = NewConsumer(self_)

\* Faulty variant of Zip: the receiver and the argument of inverted_zip exchanged.
ZipSwapped(self_, rhs) == InvertedZip(self_, rhs)

\* zip(self, rhs, f) is rhs.inverted_zip(self, f).
Zip(self_, rhs) == InvertedZip(rhs, self_)

\* inverted_zip2(self, lhs, f): lhs.into_iter() yields the elements of lhs by
\* value, right consumes self.
InvertedZip2(self_, lhs) ==
    /\ left = NewConsumer(lhs)
    /\ right = NewConsumer(self_)

SliceOps == {"from_slice", "from_mut_slice", "try_from", "try_from_mut"}

Ops == {"generate", "from_iter", "from_exact_iter", "map", "zip", "zip2", "fold"}
           \cup SliceOps

StartPc ==
    [o \in Ops |->
        CASE o = "generate" -> "generate"
          [] o = "from_exact_iter" -> "exact_iter"
          [] o = "fold" -> "fold"
          [] o \in SliceOps -> o
          [] OTHER -> "from_iter"]

Init ==
    /\ op \in Ops
    /\ N \in Lengths
    /\ pc = StartPc[op]
    /\ IF op \in {"from_iter", "from_exact_iter"}
       THEN \E vals \in SeqsUpTo(T, MaxN + 1), e \in BOOLEAN :
                iter = [items |-> Container("item", vals), endless |-> e,
                        pulls |-> 0, failed |-> FALSE]
       ELSE iter = NoIter
    /\ destination = IF op \in {"fold"} \cup SliceOps THEN NewBuilder(0) ELSE NewBuilder(N)
    /\ IF op \in {"map", "fold"}
       THEN \E vals \in [1..N -> T] : source = NewConsumer(Container("self", vals))
       ELSE source = NewConsumer(<<>>)
    /\ CASE op = "zip" ->
                \E sv \in [1..N -> T], rv \in [1..N -> T] :
                    Zip(Container("self", sv), Container("rhs", rv))
         [] op = "zip2" ->
                \E sv \in [1..N -> T], lv \in [1..N -> T] :
                    InvertedZip2(Container("self", sv), Container("lhs", lv))
         [] OTHER -> left = NewConsumer(<<>>) /\ right = NewConsumer(<<>>)
    /\ IF op \in SliceOps
       THEN \E vals \in SeqsUpTo(T, MaxN + 1) : slice = Container("elem", vals)
       ELSE slice = <<>>
    /\ IF op = "fold" THEN init \in {Elem("acc", 0, v) : v \in U} ELSE init = NoAcc
    /\ acc = init
    /\ args = <<>>
    /\ calls = <<>>
    /\ destroyed = <<>>
    /\ cleanup = <<>>
    /\ exitAs = "running"
    /\ outcome = "running"
    /\ result = <<>>
    /\ panicMsg = NoPanic

----------------------------------------------------------------------------
\* generate

\* Faulty variant of GenerateBody: the value is written but *position is not advanced.
GenerateBodyNoAdvance(b, v) == SlotWrite(b, v)

\* dst.write(f(i)); *position += 1
GenerateBody(b, v) == [SlotWrite(b, v) EXCEPT !.position = @ + 1]

\* Faulty variant of GenerateIndex: the index counted from 1.
GenerateIndexFromOne(b) == b.iter + 1

\* The index enumerate() pairs with the next slot of destination_iter.
GenerateIndex(b) == b.iter

\* Faulty variant of GenerateNext: the end of the slots is tested only after
\* the first call of f.
GenerateNextBodyFirst ==
    /\ pc = "generate"
    /\ IF SlotIterDone(destination) /\ destination.iter > 0
       THEN /\ pc' = "into_inner"
            /\ UNCHANGED <<destination, args>>
       ELSE /\ destination' = SlotIterNext(destination)
            /\ args' = <<GenerateIndex(destination)>>
            /\ pc' = "generate_f"
    /\ UNCHANGED <<op, N, init, slice, iter, source, left, right, acc, calls, destroyed,
                   cleanup, exitAs, outcome, result, panicMsg>>

\* destination_iter.enumerate().next(), then f is entered with the index.
GenerateNext ==
    /\ pc = "generate"
    /\ IF SlotIterDone(destination)
       THEN /\ pc' = "into_inner"
            /\ UNCHANGED <<destination, args>>
       ELSE /\ destination' = SlotIterNext(destination)
            /\ args' = <<GenerateIndex(destination)>>
            /\ pc' = "generate_f"
    /\ UNCHANGED <<op, N, init, slice, iter, source, left, right, acc, calls, destroyed,
                   cleanup, exitAs, outcome, result, panicMsg>>

\* Faulty variant of GenerateF: a failed call of f is made again.
GenerateFRetries ==
    /\ pc = "generate_f"
    /\ \E r \in U \cup {"fail"} :
          IF r = "fail"
          THEN /\ calls' = Append(calls, [args |-> args, ret |-> Fail])
               /\ UNCHANGED <<pc, args, destination, cleanup, exitAs>>
          ELSE /\ calls' = Append(calls, [args |-> args,
                                          ret |-> Elem("out", Len(calls), r)])
               /\ destination' = GenerateBody(destination, Elem("out", Len(calls), r))
               /\ pc' = "generate"
               /\ args' = <<>>
               /\ UNCHANGED <<cleanup, exitAs>>
    /\ UNCHANGED <<op, N, init, slice, iter, source, left, right, acc, destroyed, outcome,
                   result, panicMsg>>

\* f(i) returns a value, which is written, or fails.
GenerateF ==
    /\ pc = "generate_f"
    /\ \E r \in U \cup {"fail"} :
          IF r = "fail"
          THEN /\ calls' = Append(calls, [args |-> args, ret |-> Fail])
               /\ Exit(<<"destination">>, "failed")
               /\ UNCHANGED destination
          ELSE /\ calls' = Append(calls, [args |-> args,
                                          ret |-> Elem("out", Len(calls), r)])
               /\ destination' = GenerateBody(destination, Elem("out", Len(calls), r))
               /\ pc' = "generate"
               /\ UNCHANGED <<cleanup, exitAs>>
    /\ args' = <<>>
    /\ UNCHANGED <<op, N, init, slice, iter, source, left, right, acc, destroyed, outcome,
                   result, panicMsg>>

----------------------------------------------------------------------------
\* FromIterator::from_iter, over the external iterator or over the mapped
\* iterators that map and inverted_zip hand to it

\* Faulty variant of FromIterLengthFail: the two arguments exchanged in the message.
FromIterLengthFailSwapped(length, expected) ==
    [received |-> expected, expected |-> length]

\* panic!("GenericArray::from_iter received {} elements but expected {}")
FromIterLengthFail(length, expected) == [received |-> length, expected |-> expected]

\* Faulty variant of FromIterBody: the item is written but *position is not advanced.
FromIterBodyNoAdvance(b, v) == SlotWrite(b, v)

\* dst.write(src); *position += 1
FromIterBody(b, v) == [SlotWrite(b, v) EXCEPT !.position = @ + 1]

\* Faulty variant of MapRead: the element is read out but *position is not advanced.
MapReadNoAdvance(c) == [c EXCEPT !.iter = @ + 1]

\* value = ptr::read(src); *position += 1, on the slot array_iter hands out
MapRead(c) == [c EXCEPT !.iter = @ + 1, !.position = @ + 1]

\* Faulty variant of ZipReadLeft: *left_position is not advanced.
ZipReadLeftNoAdvance(c) == [c EXCEPT !.iter = @ + 1]

\* left_value = ptr::read(l); *left_position += 1
ZipReadLeft(c) == [c EXCEPT !.iter = @ + 1, !.position = @ + 1]

\* Faulty variant of ZipReadRight: *right_position is not advanced.
ZipReadRightNoAdvance(c) == [c EXCEPT !.iter = @ + 1]

\* right_value = ptr::read(r); *right_position += 1
ZipReadRight(c) == [c EXCEPT !.iter = @ + 1, !.position = @ + 1]

\* f(left_value, right_value)
ZipArgs(left_value, right_value) == <<left_value, right_value>>

\* map's iterator, array_iter.map(|src| ..), up to the call of f:
\* value = ptr::read(src); *position += 1; f(value)
MapNext(fpc, nonepc) ==
    /\ IF source.iter = Len(source.array)
       THEN /\ pc' = nonepc
            /\ UNCHANGED <<source, args>>
       ELSE /\ source' = MapRead(source)
            /\ args' = <<source.array[source.iter + 1]>>
            /\ pc' = fpc
    /\ UNCHANGED <<left, right>>

\* inverted_zip's iterator, left_array_iter.zip(right_array_iter).map(|(l, r)| ..),
\* up to the call of f: both values are read, both positions advanced.
ZipNext(fpc, nonepc) ==
    /\ IF left.iter = Len(left.array) \/ right.iter = Len(right.array)
       THEN /\ pc' = nonepc
            /\ UNCHANGED <<left, right, args>>
       ELSE /\ left' = ZipReadLeft(left)
            /\ right' = ZipReadRight(right)
            /\ args' = ZipArgs(left.array[left.iter + 1], right.array[right.iter + 1])
            /\ pc' = fpc
    /\ UNCHANGED source

\* lhs.into_iter().next(): the next element of lhs, moved out by value.
LhsIterNext(c) == [c EXCEPT !.iter = @ + 1, !.position = @ + 1]

\* right_value = ptr::read(r); *right_position += 1
Zip2ReadRight(c) == [c EXCEPT !.iter = @ + 1, !.position = @ + 1]

\* inverted_zip2's iterator, lhs.into_iter().zip(right_array_iter).map(..), up
\* to the call of f: the zip asks lhs first and right_array_iter only when
\* lhs yielded; a value of lhs without a partner is dropped by the zip.
Zip2Next(fpc, nonepc) ==
    /\ IF left.iter = Len(left.array)
       THEN /\ pc' = nonepc
            /\ UNCHANGED <<left, right, args>>
       ELSE IF right.iter = Len(right.array)
       THEN /\ left' = LhsIterNext(left)
            /\ pc' = nonepc
            /\ UNCHANGED <<right, args>>
       ELSE /\ left' = LhsIterNext(left)
            /\ right' = Zip2ReadRight(right)
            /\ args' = <<left.array[left.iter + 1], right.array[right.iter + 1]>>
            /\ pc' = fpc
    /\ UNCHANGED source

\* iter.next() as from_iter sees it: the mapped iterators run up to their
\* call of f, the external iterator is entered.
SourceNext(fpc, nonepc, pullpc) ==
    CASE op = "map" -> MapNext(fpc, nonepc)
      [] op = "zip" -> ZipNext(fpc, nonepc)
      [] op = "zip2" -> Zip2Next(fpc, nonepc)
      [] OTHER -> pc' = pullpc /\ UNCHANGED <<source, left, right, args>>

\* destination_iter.zip(&mut iter).next(): a slot first, then the source.
FromIterNext ==
    /\ pc = "from_iter"
    /\ IF SlotIterDone(destination)
       THEN /\ pc' = "from_iter_check"
            /\ UNCHANGED <<destination, source, left, right, args>>
       ELSE /\ destination' = SlotIterNext(destination)
            /\ SourceNext("f", "from_iter_check", "from_iter_pull")
    /\ UNCHANGED <<op, N, init, slice, iter, acc, calls, destroyed, cleanup, exitAs, outcome,
                   result, panicMsg>>

\* What from_iter does with an item its iterator yields: in the loop it is
\* written; at the pull after the loop it is dropped and the length fails.
FromIterItem(v, inLoop) ==
    IF inLoop
    THEN /\ destination' = FromIterBody(destination, v)
         /\ pc' = "from_iter"
         /\ UNCHANGED <<destroyed, panicMsg, cleanup, exitAs>>
    ELSE /\ destroyed' = Append(destroyed, [by |-> "temporary", obj |-> v.obj])
         /\ panicMsg' = FromIterLengthFail(N + 1, N)
         /\ Exit(<<"destination">> \o ConsumerFrames, "abort")
         /\ UNCHANGED destination

\* Faulty variant of FromIterCheck: the length fails on *position <= N.
FromIterCheckAtMost ==
    /\ pc = "from_iter_check"
    /\ IF destination.position <= N
       THEN /\ panicMsg' = FromIterLengthFail(destination.position, N)
            /\ Exit(<<"destination">> \o ConsumerFrames, "abort")
            /\ UNCHANGED <<source, left, right, args>>
       ELSE /\ SourceNext("f_extra", "into_inner", "from_iter_extra")
            /\ UNCHANGED <<panicMsg, cleanup, exitAs>>
    /\ UNCHANGED <<op, N, init, slice, iter, destination, acc, calls, destroyed, outcome, result>>

\* Faulty variant of FromIterCheck: *position is not compared with N.
FromIterCheckNoLength ==
    /\ pc = "from_iter_check"
    /\ SourceNext("f_extra", "into_inner", "from_iter_extra")
    /\ UNCHANGED <<panicMsg, cleanup, exitAs>>
    /\ UNCHANGED <<op, N, init, slice, iter, destination, acc, calls, destroyed, outcome, result>>

\* if *position < N::USIZE { from_iter_length_fail(..) }; else iter.next() again
FromIterCheck ==
    /\ pc = "from_iter_check"
    /\ IF destination.position < N
       THEN /\ panicMsg' = FromIterLengthFail(destination.position, N)
            /\ Exit(<<"destination">> \o ConsumerFrames, "abort")
            /\ UNCHANGED <<source, left, right, args>>
       ELSE /\ SourceNext("f_extra", "into_inner", "from_iter_extra")
            /\ UNCHANGED <<panicMsg, cleanup, exitAs>>
    /\ UNCHANGED <<op, N, init, slice, iter, destination, acc, calls, destroyed, outcome, result>>

\* The external iterator's next() in the loop: an item, the end, or a failure.
FromIterPull ==
    /\ pc = "from_iter_pull"
    /\ \E fails \in BOOLEAN :
          /\ iter' = [iter EXCEPT !.pulls = @ + 1, !.failed = fails]
          /\ IF fails
             THEN /\ Exit(<<"destination">>, "failed")
                  /\ UNCHANGED <<destination, destroyed, panicMsg>>
             ELSE IF IterItem(iter, iter.pulls) = None
             THEN /\ pc' = "from_iter_check"
                  /\ UNCHANGED <<destination, destroyed, panicMsg, cleanup, exitAs>>
             ELSE FromIterItem(IterItem(iter, iter.pulls), TRUE)
    /\ UNCHANGED <<op, N, init, slice, source, left, right, acc, args, calls, outcome, result>>

\* The external iterator's next() of `if iter.next().is_some()`.
FromIterExtra ==
    /\ pc = "from_iter_extra"
    /\ \E fails \in BOOLEAN :
          /\ iter' = [iter EXCEPT !.pulls = @ + 1, !.failed = fails]
          /\ IF fails
             THEN /\ Exit(<<"destination">>, "failed")
                  /\ UNCHANGED <<destination, destroyed, panicMsg>>
             ELSE IF IterItem(iter, iter.pulls) = None
             THEN /\ pc' = "into_inner"
                  /\ UNCHANGED <<destination, destroyed, panicMsg, cleanup, exitAs>>
             ELSE FromIterItem(IterItem(iter, iter.pulls), FALSE)
    /\ UNCHANGED <<op, N, init, slice, source, left, right, acc, args, calls, outcome, result>>

\* Faulty variant of CallF: a failure of f leaves as from_iter's length mismatch.
CallFAsLengthFail ==
    /\ pc \in {"f", "f_extra"}
    /\ \E r \in U \cup {"fail"} :
          IF r = "fail"
          THEN /\ calls' = Append(calls, [args |-> args, ret |-> Fail])
               /\ Exit(<<"args", "destination">> \o ConsumerFrames, "abort")
               /\ UNCHANGED <<args, destination, destroyed, panicMsg>>
          ELSE /\ calls' = Append(calls, [args |-> args,
                                          ret |-> Elem("out", Len(calls), r)])
               /\ args' = <<>>
               /\ FromIterItem(Elem("out", Len(calls), r), pc = "f")
    /\ UNCHANGED <<op, N, init, slice, iter, source, left, right, acc, outcome, result>>

\* The call of f made by the iterator of map or inverted_zip: f fails, and
\* the failure leaves through from_iter, or f returns the item from_iter gets.
CallF ==
    /\ pc \in {"f", "f_extra"}
    /\ \E r \in U \cup {"fail"} :
          IF r = "fail"
          THEN /\ calls' = Append(calls, [args |-> args, ret |-> Fail])
               /\ Exit(<<"args", "destination">> \o ConsumerFrames, "failed")
               /\ UNCHANGED <<args, destination, destroyed, panicMsg>>
          ELSE /\ calls' = Append(calls, [args |-> args,
                                          ret |-> Elem("out", Len(calls), r)])
               /\ args' = <<>>
               /\ FromIterItem(Elem("out", Len(calls), r), pc = "f")
    /\ UNCHANGED <<op, N, init, slice, iter, source, left, right, acc, outcome, result>>

----------------------------------------------------------------------------
\* fold

\* Faulty variant of FoldRead: the element is read out but *position is not advanced.
FoldReadNoAdvance(c) == [c EXCEPT !.iter = @ + 1]

\* value = ptr::read(src); *position += 1
FoldRead(c) == [c EXCEPT !.iter = @ + 1, !.position = @ + 1]

\* Faulty variant of FoldArgs: the accumulator and the element exchanged.
FoldArgsSwapped(a, value) == <<value, a>>

\* f(acc, value)
FoldArgs(a, value) == <<a, value>>

\* array_iter.fold(init, |acc, src| ..) up to the call of f:
\* value = ptr::read(src); *position += 1; f(acc, value)
FoldNext ==
    /\ pc = "fold"
    /\ IF source.iter = Len(source.array)
       THEN /\ result' = <<acc>>
            /\ Exit(ConsumerFrames, "ok")
            /\ UNCHANGED <<source, args>>
       ELSE /\ source' = FoldRead(source)
            /\ args' = FoldArgs(acc, source.array[source.iter + 1])
            /\ pc' = "fold_f"
            /\ UNCHANGED <<result, cleanup, exitAs>>
    /\ UNCHANGED <<op, N, init, slice, iter, destination, left, right, acc, calls, destroyed,
                   outcome, panicMsg>>

\* f(acc, value) returns the next accumulator or fails.
FoldF ==
    /\ pc = "fold_f"
    /\ \E r \in U \cup {"fail"} :
          IF r = "fail"
          THEN /\ calls' = Append(calls, [args |-> args, ret |-> Fail])
               /\ Exit(<<"args">> \o ConsumerFrames, "failed")
               /\ UNCHANGED <<args, acc>>
          ELSE /\ calls' = Append(calls, [args |-> args,
                                          ret |-> Elem("acc", Len(calls) + 1, r)])
               /\ acc' = Elem("acc", Len(calls) + 1, r)
               /\ args' = <<>>
               /\ pc' = "fold"
               /\ UNCHANGED <<cleanup, exitAs>>
    /\ UNCHANGED <<op, N, init, slice, iter, destination, source, left, right, destroyed,
                   outcome, result, panicMsg>>

----------------------------------------------------------------------------
\* GenericArray::from_exact_iter

\* Faulty variant of ExactIterBody: the item is written but *position is not advanced.
ExactIterBodyNoAdvance(b, v) == SlotWrite(b, v)

\* dst.write(src); *position += 1
ExactIterBody(b, v) == [SlotWrite(b, v) EXCEPT !.position = @ + 1]

\* destination_iter.zip(&mut iter).next(): a slot first, then the source.
ExactIterNext ==
    /\ pc = "exact_iter"
    /\ IF SlotIterDone(destination)
       THEN /\ pc' = "exact_iter_check"
            /\ UNCHANGED destination
       ELSE /\ destination' = SlotIterNext(destination)
            /\ pc' = "exact_iter_pull"
    /\ UNCHANGED <<op, N, init, slice, iter, source, left, right, acc, args, calls, destroyed,
                   cleanup, exitAs, outcome, result, panicMsg>>

\* The external iterator's next() in the loop: an item, the end, or a failure.
ExactIterPull ==
    /\ pc = "exact_iter_pull"
    /\ \E fails \in BOOLEAN :
          /\ iter' = [iter EXCEPT !.pulls = @ + 1, !.failed = fails]
          /\ IF fails
             THEN /\ Exit(<<"destination">>, "failed")
                  /\ UNCHANGED destination
             ELSE IF IterItem(iter, iter.pulls) = None
             THEN /\ pc' = "exact_iter_check"
                  /\ UNCHANGED <<destination, cleanup, exitAs>>
             ELSE /\ destination' = ExactIterBody(destination, IterItem(iter, iter.pulls))
                  /\ pc' = "exact_iter"
                  /\ UNCHANGED <<cleanup, exitAs>>
    /\ UNCHANGED <<op, N, init, slice, source, left, right, acc, args, calls, destroyed,
                   outcome, result, panicMsg>>

\* Faulty variant of ExactIterCheck: a full builder is returned without asking the
\* source for one more item.
ExactIterCheckNoExtra ==
    /\ pc = "exact_iter_check"
    /\ IF destination.position # N
       THEN Exit(<<"destination">>, "none")
       ELSE pc' = "into_inner" /\ UNCHANGED <<cleanup, exitAs>>
    /\ UNCHANGED <<op, N, init, slice, iter, destination, source, left, right, acc, args, calls,
                   destroyed, outcome, result, panicMsg>>

\* if *position != N::USIZE { return None; }
ExactIterCheck ==
    /\ pc = "exact_iter_check"
    /\ IF destination.position # N
       THEN Exit(<<"destination">>, "none")
       ELSE pc' = "exact_iter_extra" /\ UNCHANGED <<cleanup, exitAs>>
    /\ UNCHANGED <<op, N, init, slice, iter, destination, source, left, right, acc, args, calls,
                   destroyed, outcome, result, panicMsg>>

\* Faulty variant of ExactIterExtra: the rest of the source is drained
\* (while iter.next().is_some()) before None is returned.
ExactIterExtraDrains ==
    /\ pc = "exact_iter_extra"
    /\ \E fails \in BOOLEAN :
          /\ iter' = [iter EXCEPT !.pulls = @ + 1, !.failed = fails]
          /\ IF fails
             THEN /\ Exit(<<"destination">>, "failed")
                  /\ UNCHANGED destroyed
             ELSE IF IterItem(iter, iter.pulls) = None
             THEN /\ IF iter.pulls = N
                     THEN pc' = "into_inner" /\ UNCHANGED <<cleanup, exitAs>>
                     ELSE Exit(<<"destination">>, "none")
                  /\ UNCHANGED destroyed
             ELSE /\ destroyed' = Append(destroyed,
                        [by |-> "temporary", obj |-> IterItem(iter, iter.pulls).obj])
                  /\ UNCHANGED <<pc, cleanup, exitAs>>
    /\ UNCHANGED <<op, N, init, slice, destination, source, left, right, acc, args, calls,
                   outcome, result, panicMsg>>

\* if iter.next().is_some() { return None; }: the item pulled is dropped.
ExactIterExtra ==
    /\ pc = "exact_iter_extra"
    /\ \E fails \in BOOLEAN :
          /\ iter' = [iter EXCEPT !.pulls = @ + 1, !.failed = fails]
          /\ IF fails
             THEN /\ Exit(<<"destination">>, "failed")
                  /\ UNCHANGED destroyed
             ELSE IF IterItem(iter, iter.pulls) = None
             THEN /\ pc' = "into_inner"
                  /\ UNCHANGED <<destroyed, cleanup, exitAs>>
             ELSE /\ destroyed' = Append(destroyed,
                        [by |-> "temporary", obj |-> IterItem(iter, iter.pulls).obj])
                  /\ Exit(<<"destination">>, "none")
    /\ UNCHANGED <<op, N, init, slice, destination, source, left, right, acc, args, calls,
                   outcome, result, panicMsg>>

----------------------------------------------------------------------------
\* Slice conversions

\* as_slice: slice::from_raw_parts(self as *const T, N), the N elements of the
\* container seen as a slice.
AsSlice(a) == [j \in 1..N |-> a[j]]

\* &*(slice.as_ptr() as *const GenericArray<T, N>): the N elements that
\* start where the slice starts, seen in place.
FromSliceView(s) == [j \in 1..N |-> s[j]]

\* &mut *(slice.as_mut_ptr() as *mut GenericArray<T, N>)
FromMutSliceView(s) == [j \in 1..N |-> s[j]]

\* from_slice: panics unless slice.len() == N.
FromSlice ==
    /\ pc = "from_slice"
    /\ IF Len(slice) # N
       THEN Exit(<<>>, "abort") /\ UNCHANGED result
       ELSE result' = FromSliceView(slice) /\ Exit(<<>>, "ok")
    /\ UNCHANGED <<op, N, init, slice, iter, destination, source, left, right, acc, args,
                   calls, destroyed, outcome, panicMsg>>

\* from_mut_slice: assert_eq!(slice.len(), N::USIZE, ..).
FromMutSlice ==
    /\ pc = "from_mut_slice"
    /\ IF Len(slice) # N
       THEN Exit(<<>>, "abort") /\ UNCHANGED result
       ELSE result' = FromMutSliceView(slice) /\ Exit(<<>>, "ok")
    /\ UNCHANGED <<op, N, init, slice, iter, destination, source, left, right, acc, args,
                   calls, destroyed, outcome, panicMsg>>

\* Faulty variant of TryFromLenOk: a longer slice is let through.
TryFromLenAtLeast(s) == Len(s) >= N

\* if slice.len() == N::USIZE
TryFromLenOk(s) == Len(s) = N

\* TryFrom<&[T]>: Ok(GenericArray::from_slice(slice)) or Err(LengthError).
TryFromSlice ==
    /\ pc = "try_from"
    /\ IF TryFromLenOk(slice)
       THEN pc' = "from_slice" /\ UNCHANGED <<cleanup, exitAs>>
       ELSE Exit(<<>>, "err")
    /\ UNCHANGED <<op, N, init, slice, iter, destination, source, left, right, acc, args,
                   calls, destroyed, outcome, result, panicMsg>>

\* if slice.len() == N::USIZE
TryFromMutLenOk(s) == Len(s) = N

\* TryFrom<&mut [T]>: Ok(GenericArray::from_mut_slice(slice)) or Err(LengthError).
TryFromMutSlice ==
    /\ pc = "try_from_mut"
    /\ IF TryFromMutLenOk(slice)
       THEN pc' = "from_mut_slice" /\ UNCHANGED <<cleanup, exitAs>>
       ELSE Exit(<<>>, "err")
    /\ UNCHANGED <<op, N, init, slice, iter, destination, source, left, right, acc, args,
                   calls, destroyed, outcome, result, panicMsg>>

----------------------------------------------------------------------------
\* Leaving the operation

\* destination.into_inner(), after which the frames of the caller are left.
IntoInner ==
    /\ pc = "into_inner"
    /\ destination' = BuilderIntoInner(destination)
    /\ result' = destination.array
    /\ Exit(ConsumerFrames, "ok")
    /\ UNCHANGED <<op, N, init, slice, iter, source, left, right, acc, args, calls, destroyed,
                   outcome, panicMsg>>

\* The frame of f unwinds: the arguments it owns are destroyed.
DropArgs ==
    /\ pc = "exit" /\ cleanup # <<>> /\ Head(cleanup) = "args"
    /\ destroyed' = destroyed \o [j \in 1..Len(args) |->
                                    [by |-> "unwind", obj |-> args[j].obj]]
    /\ args' = <<>>
    /\ cleanup' = Tail(cleanup)
    /\ UNCHANGED <<op, N, init, slice, pc, iter, destination, source, left, right, acc, calls,
                   exitAs, outcome, result, panicMsg>>

DropBuilder ==
    /\ pc = "exit" /\ cleanup # <<>> /\ Head(cleanup) = "destination"
    /\ destroyed' = destroyed \o BuilderDrop(destination)
    /\ cleanup' = Tail(cleanup)
    /\ UNCHANGED <<op, N, init, slice, pc, iter, destination, source, left, right, acc, args,
                   calls, exitAs, outcome, result, panicMsg>>

ConsumerOf(name) ==
    CASE name = "source" -> source
      [] name = "left" -> left
      [] OTHER -> right

DropConsumer ==
    /\ pc = "exit" /\ cleanup # <<>>
    /\ Head(cleanup) \in {"source", "left", "right"}
    /\ destroyed' = destroyed \o ConsumerDrop(ConsumerOf(Head(cleanup)), Head(cleanup))
    /\ cleanup' = Tail(cleanup)
    /\ UNCHANGED <<op, N, init, slice, pc, iter, destination, source, left, right, acc, args,
                   calls, exitAs, outcome, result, panicMsg>>

\* The operation ends: with its result, or with the failure or abort.
Return ==
    /\ pc = "exit" /\ cleanup = <<>>
    /\ outcome' = exitAs
    /\ pc' = "done"
    /\ UNCHANGED <<op, N, init, slice, iter, destination, source, left, right, acc, args, calls,
                   destroyed, cleanup, exitAs, result, panicMsg>>

\* The caller destroys the returned container: each of its elements once.
\* (A slice conversion returns a reference, which owns nothing.)
DropResult ==
    /\ pc = "done" /\ outcome = "ok"
    /\ op \notin SliceOps
    /\ destroyed' = destroyed \o [j \in 1..Len(result) |->
                                    [by |-> "Container", obj |-> result[j].obj]]
    /\ pc' = "dropped"
    /\ UNCHANGED <<op, N, init, slice, iter, destination, source, left, right, acc, args, calls,
                   cleanup, exitAs, outcome, result, panicMsg>>

Next ==
    \/ GenerateNext
    \/ GenerateF
    \/ FromIterNext
    \/ FromIterCheck
    \/ FromIterPull
    \/ FromIterExtra
    \/ CallF
    \/ FoldNext
    \/ FoldF
    \/ ExactIterNext
    \/ ExactIterPull
    \/ ExactIterCheck
    \/ ExactIterExtra
    \/ FromSlice
    \/ FromMutSlice
    \/ TryFromSlice
    \/ TryFromMutSlice
    \/ IntoInner
    \/ DropArgs
    \/ DropBuilder
    \/ DropConsumer
    \/ Return
    \/ DropResult

Spec == Init /\ [][Next]_vars

----------------------------------------------------------------------------
\* Reading the log of destroy events

Finished == pc \in {"done", "dropped"}

\* The number of destroy events on the value obj, and those of one destroyer.
Count(obj) == Cardinality({k \in DOMAIN destroyed : destroyed[k].obj = obj})
CountBy(by, obj) ==
    Cardinality({k \in DOMAIN destroyed :
                    destroyed[k].by = by /\ destroyed[k].obj = obj})

IsBy(by, e) == e.by = by
EventsBy(by) == SelectSeq(destroyed, LAMBDA e : IsBy(by, e))

\* The last call of f failed; it is call number FailedAt (from 0).
LastFailed == calls # <<>> /\ calls[Len(calls)].ret = Fail
FailedAt == Len(calls) - 1

\* The 0-based indices of an array of N slots.
Slots == 0..(N - 1)

----------------------------------------------------------------------------
\* C1: when map's f fails on element i, the run ends with exactly i destroy
\* events on the outputs already produced (outputs 0..i-1, once each), exactly
\* N - i destroy events on the source elements f did not consume (elements
\* i..N-1, once each: element i by the unwinding call of f that owns it, the
\* rest by the abandoned ArrayConsumer), and nothing is destroyed twice.
C1_MapFailureDestroys ==
    (op = "map" /\ pc = "done" /\ outcome = "failed") =>
        /\ LastFailed
        /\ calls[FailedAt + 1].args = <<source.array[FailedAt + 1]>>
        /\ \A j \in Slots :
              /\ Count(<<"out", j>>) = IF j < FailedAt THEN 1 ELSE 0
              /\ Count(<<"self", j>>) = IF j >= FailedAt THEN 1 ELSE 0
              /\ CountBy("source", <<"self", j>>) = IF j > FailedAt THEN 1 ELSE 0
              /\ CountBy("Builder", <<"out", j>>) = IF j < FailedAt THEN 1 ELSE 0
        /\ Len(destroyed) = FailedAt + (N - FailedAt)
        /\ Len(EventsBy("Builder")) = FailedAt

\* A map over three elements whose f failed on element 1.
C1_Witness ==
    /\ op = "map" /\ pc = "done" /\ outcome = "failed"
    /\ N = 3 /\ FailedAt = 1
    /\ Count(<<"out", 0>>) = 1 /\ Count(<<"self", 2>>) = 1

----------------------------------------------------------------------------
\* C2: in zip the two ArrayConsumers' positions are equal whenever f runs and
\* while the operation is abandoned; when f fails both consumers destroy the
\* same index range [position, N) of their sources once each, the builder
\* destroys exactly the outputs written, and no element of either source or
\* of the output is leaked or destroyed twice.
C2_ZipLockStep ==
    op = "zip" =>
        /\ pc \in {"f", "f_extra", "exit"} => left.position = right.position
        /\ pc \in {"f", "f_extra"} =>
              args = <<left.array[left.position], right.array[right.position]>>
        /\ (pc = "done" /\ outcome = "failed") =>
              /\ LastFailed
              /\ left.position = FailedAt + 1
              /\ right.position = FailedAt + 1
              /\ destination.position = FailedAt
              /\ \A j \in Slots :
                    /\ CountBy("left", <<"self", j>>) = IF j >= left.position THEN 1 ELSE 0
                    /\ CountBy("right", <<"rhs", j>>) = IF j >= left.position THEN 1 ELSE 0
                    /\ CountBy("Builder", <<"out", j>>) = IF j < FailedAt THEN 1 ELSE 0
                    /\ Count(<<"self", j>>) = IF j >= FailedAt THEN 1 ELSE 0
                    /\ Count(<<"rhs", j>>) = IF j >= FailedAt THEN 1 ELSE 0
                    /\ Count(<<"out", j>>) = IF j < FailedAt THEN 1 ELSE 0
                    /\ j < FailedAt =>
                          /\ calls[j + 1].args = <<left.array[j + 1], right.array[j + 1]>>
                          /\ calls[j + 1].ret = destination.array[j + 1]
              /\ Len(destroyed) = FailedAt + 2 * (N - FailedAt)

\* A zip over three pairs whose f failed on pair 1: both consumers destroyed
\* element 2, the builder output 0.
C2_Witness ==
    /\ op = "zip" /\ pc = "done" /\ outcome = "failed"
    /\ N = 3 /\ FailedAt = 1
    /\ CountBy("left", <<"self", 2>>) = 1 /\ CountBy("right", <<"rhs", 2>>) = 1
    /\ CountBy("Builder", <<"out", 0>>) = 1

----------------------------------------------------------------------------
\* C3: when generate's f fails at index i the builder's position is i, its
\* abandonment destroys the elements of slots [0, i) once each in forward
\* order and touches no slot of [i, N), no container is returned, and the
\* caller sees the failure.
C3_GenerateFailure ==
    (op = "generate" /\ LastFailed) =>
        /\ calls[FailedAt + 1].args = <<FailedAt>>
        /\ destination.position = FailedAt
        /\ ~destination.inner
        /\ result = <<>>
        /\ pc \in {"exit", "done"}
        /\ exitAs = "failed"
        /\ \A j \in Slots :
              destination.array[j + 1] =
                  IF j < FailedAt THEN calls[j + 1].ret ELSE Uninit
        /\ pc = "done" =>
              /\ outcome = "failed"
              /\ destroyed = [j \in 1..FailedAt |->
                                [by |-> "Builder", obj |-> calls[j].ret.obj]]
              /\ \A j \in 1..FailedAt : calls[j].ret.obj = <<"out", j - 1>>

\* generate of three elements whose f failed at index 2.
C3_Witness ==
    /\ op = "generate" /\ pc = "done" /\ outcome = "failed"
    /\ N = 3 /\ FailedAt = 2 /\ Len(destroyed) = 2

----------------------------------------------------------------------------
\* C4: when fold's f fails after i elements were taken (the consumer's
\* position is i), the abandoned ArrayConsumer destroys exactly the source
\* elements [i, N), once each in forward order, none of [0, i), and never
\* the accumulator, which only the unwinding call of f destroys.
C4_FoldFailure ==
    (op = "fold" /\ pc = "done" /\ outcome = "failed") =>
        /\ LastFailed
        /\ source.position = Len(calls)
        /\ EventsBy("source") =
              [j \in 1..(N - source.position) |->
                  [by |-> "source", obj |-> <<"self", source.position + j - 1>>]]
        /\ \A j \in Slots : j < source.position => CountBy("source", <<"self", j>>) = 0
        /\ \A k \in DOMAIN destroyed :
              destroyed[k].obj[1] = "acc" => destroyed[k].by = "unwind"
        /\ Count(calls[Len(calls)].args[1].obj) = 1

\* A fold over three elements whose f failed on its second call: the
\* consumer destroyed element 2 alone.
C4_Witness ==
    /\ op = "fold" /\ pc = "done" /\ outcome = "failed"
    /\ N = 3 /\ source.position = 2
    /\ EventsBy("source") = <<[by |-> "source", obj |-> <<"self", 2>>]>>

----------------------------------------------------------------------------
\* C5: on a run where neither f nor the source fails and a result is
\* returned and then destroyed, the builder and the consumers destroy
\* nothing, every source element was handed to exactly one call of f and is
\* not destroyed by the operation, and the N elements of the resulting
\* container are N distinct values produced once and destroyed once.
Produced ==
    IF op \in {"from_iter", "from_exact_iter"}
    THEN [j \in 1..N |-> iter.items[j]]
    ELSE [j \in 1..N |-> calls[j].ret]

Sources ==
    CASE op \in {"map", "fold"} -> {source}
      [] op = "zip" -> {left, right}
      [] OTHER -> {}

C5_SuccessDestroysOnce ==
    (pc = "dropped" /\ outcome = "ok") =>
        /\ EventsBy("Builder") = <<>>
        /\ EventsBy("source") = <<>>
        /\ EventsBy("left") = <<>>
        /\ EventsBy("right") = <<>>
        /\ EventsBy("unwind") = <<>>
        /\ \A c \in Sources : \A j \in 1..N :
              /\ c.position = N
              /\ Count(c.array[j].obj) = 0
              /\ Cardinality({k \in DOMAIN calls :
                    \E a \in DOMAIN calls[k].args : calls[k].args[a] = c.array[j]}) = 1
        /\ op # "fold" =>
              /\ Len(result) = N
              /\ result = Produced
              /\ \A j \in 1..N : Count(result[j].obj) = 1
              /\ \A j, k \in 1..N : j # k => result[j].obj # result[k].obj
              /\ Len(destroyed) = N
        /\ op = "fold" =>
              /\ Len(calls) = N
              /\ Len(destroyed) = 1
              /\ Count(result[1].obj) = 1

\* A successful zip of three pairs whose result was destroyed.
C5_Witness ==
    /\ op = "zip" /\ pc = "dropped" /\ outcome = "ok" /\ N = 3
    /\ Len(destroyed) = 3

----------------------------------------------------------------------------
\* C6: from_exact_iter over a source that does not fail returns a container
\* if and only if the source yields exactly N items, element j of the
\* container being the j-th item yielded; over fewer or more items it returns
\* None, and it never panics.
C6_ExactIterResult ==
    (op = "from_exact_iter" /\ Finished /\ ~iter.failed) =>
        /\ outcome \in {"ok", "none"}
        /\ outcome = "ok" <=> YieldsExactly(iter, N)
        /\ outcome = "ok" => result = [j \in 1..N |-> iter.items[j]]
        /\ outcome = "none" => result = <<>>
        /\ panicMsg = NoPanic

\* from_exact_iter returned the two items of a source of exactly two.
C6_Witness ==
    /\ op = "from_exact_iter" /\ pc = "done" /\ outcome = "ok"
    /\ N = 2 /\ Len(iter.items) = 2 /\ result = iter.items

----------------------------------------------------------------------------
\* C7: from_exact_iter never calls next() on its source more than N + 1
\* times, whatever the source's length, endless sources included; when the
\* source holds more than N items exactly one item beyond the N written, item
\* N, is pulled, it is destroyed and never written to a slot.
HasMoreThan(it, n) == it.endless \/ Len(it.items) > n

C7_ExactIterPulls ==
    op = "from_exact_iter" =>
        /\ iter.pulls <= N + 1
        /\ (Finished /\ ~iter.failed /\ HasMoreThan(iter, N)) =>
              /\ iter.pulls = N + 1
              /\ outcome = "none"
              /\ Count(<<"item", N>>) = 1
              /\ CountBy("temporary", <<"item", N>>) = 1
              /\ \A j \in 1..N : destination.array[j].obj # <<"item", N>>
              /\ \A k \in DOMAIN destroyed : destroyed[k].obj[2] <= N

\* from_exact_iter of two elements over an endless source stopped after
\* three pulls.
C7_Witness ==
    /\ op = "from_exact_iter" /\ pc = "done" /\ iter.endless
    /\ N = 2 /\ iter.pulls = 3 /\ Count(<<"item", 2>>) = 1

----------------------------------------------------------------------------
\* C8: from_iter over a source that does not fail returns a container exactly
\* when the source yields exactly N items; over k < N items it aborts
\* reporting k received and N expected, over more than N items it aborts
\* reporting N + 1 received and N expected, and then returns no container.
C8_FromIterStrict ==
    (op = "from_iter" /\ Finished /\ ~iter.failed) =>
        /\ outcome \in {"ok", "abort"}
        /\ outcome = "ok" <=> YieldsExactly(iter, N)
        /\ outcome = "ok" => panicMsg = NoPanic /\ result = [j \in 1..N |-> iter.items[j]]
        /\ outcome = "abort" => result = <<>> /\ ~destination.inner
        /\ (~iter.endless /\ Len(iter.items) < N) =>
              /\ outcome = "abort"
              /\ panicMsg = [received |-> Len(iter.items), expected |-> N]
        /\ HasMoreThan(iter, N) =>
              /\ outcome = "abort"
              /\ panicMsg = [received |-> N + 1, expected |-> N]

\* from_iter of three elements aborted over a source of one item.
C8_Witness ==
    /\ op = "from_iter" /\ pc = "done" /\ outcome = "abort"
    /\ N = 3 /\ panicMsg = [received |-> 1, expected |-> 3]

----------------------------------------------------------------------------
\* C9: when f does not fail, map returns the container whose element j is
\* what f returned when called with element j of the source, and zip(self,
\* rhs, f) the container whose element j is what f returned when called with
\* (self[j], rhs[j]), in this order.
InputOf(class) ==
    CASE \A j \in 1..N : left.array[j].obj = <<class, j - 1>> -> left.array
      [] OTHER -> right.array

C9_MapZipResult ==
    (op \in {"map", "zip"} /\ Finished /\ outcome = "ok") =>
        /\ Len(calls) = N
        /\ Len(result) = N
        /\ \A j \in 1..N :
              /\ result[j] = calls[j].ret
              /\ result[j].val \in U
              /\ op = "map" => calls[j].args = <<source.array[j]>>
              /\ op = "zip" =>
                    /\ calls[j].args = <<InputOf("self")[j], InputOf("rhs")[j]>>
                    /\ calls[j].args[1].obj = <<"self", j - 1>>
                    /\ calls[j].args[2].obj = <<"rhs", j - 1>>

\* A zip of three pairs returned the three values f produced.
C9_Witness ==
    /\ op = "zip" /\ pc = "done" /\ outcome = "ok" /\ N = 3
    /\ result = <<calls[1].ret, calls[2].ret, calls[3].ret>>
    /\ calls[2].args[1].val # calls[2].args[2].val

----------------------------------------------------------------------------
\* C10: when f does not fail, fold returns f(..f(f(init, a[0]), a[1]).., a[N-1]):
\* call j of f gets the previous call's result (init for the first) and
\* element j, in increasing order of j, every element in exactly one call,
\* and the result is the last call's result (init when N = 0).
C10_FoldResult ==
    (op = "fold" /\ Finished /\ outcome = "ok") =>
        /\ Len(calls) = N
        /\ \A j \in 1..N :
              calls[j].args = <<IF j = 1 THEN init ELSE calls[j - 1].ret, source.array[j]>>
        /\ result = <<IF N = 0 THEN init ELSE calls[N].ret>>

\* A fold over three elements returned the result of the third call of f.
C10_Witness ==
    /\ op = "fold" /\ pc = "done" /\ outcome = "ok" /\ N = 3
    /\ result = <<calls[3].ret>> /\ calls[1].args[1] = init

----------------------------------------------------------------------------
\* C11: generate invokes f with the indices 0, 1, .., N-1 in strictly
\* increasing order, once each: call number j has index j. When f is invoked
\* with index i, the values f returned for 0..i-1 are already in slots 0..i-1
\* and the Builder's counter is i. On success f was called N times and
\* element i of the result is what f returned for i.
C11_GenerateOrder ==
    op = "generate" =>
        /\ Len(calls) <= N
        /\ \A j \in 1..Len(calls) : calls[j].args = <<j - 1>>
        /\ pc = "generate_f" =>
              /\ args = <<Len(calls)>>
              /\ args[1] < N
              /\ destination.position = args[1]
              /\ \A j \in 1..args[1] : destination.array[j] = calls[j].ret
              /\ \A j \in (args[1] + 1)..N : destination.array[j] = Uninit
        /\ (Finished /\ outcome = "ok") =>
              /\ Len(calls) = N
              /\ result = [j \in 1..N |-> calls[j].ret]

\* generate over MaxN slots returned its container.
C11_Witness ==
    op = "generate" /\ N = MaxN /\ pc = "done" /\ outcome = "ok" /\ Len(calls) = MaxN

----------------------------------------------------------------------------
\* C12: in generate, map, zip, fold and from_exact_iter the user function (or
\* the source's next) is invoked at most once per element index: the calls
\* made so far and the one in progress all carry different indices, and the
\* source is pulled one item at a time, N + 1 times at most. Once an
\* invocation has failed, no further invocation is made: the record of calls
\* and the number of pulls never change again and no call is in progress.
CallPcs == {"generate_f", "f", "f_extra", "fold_f"}

\* The element index an invocation of f is about.
IndexOf(a) == IF op = "generate" THEN a[1] ELSE a[Len(a)].obj[2]

C12_Ops == {"generate", "map", "zip", "fold", "from_exact_iter"}

C12_OncePerIndex ==
    op \in C12_Ops =>
        /\ \A j, k \in 1..Len(calls) :
              j # k => IndexOf(calls[j].args) # IndexOf(calls[k].args)
        /\ pc \in CallPcs =>
              \A j \in 1..Len(calls) : IndexOf(calls[j].args) # IndexOf(args)
        /\ Len(calls) <= N
        /\ iter.pulls <= N + 1

C12_AfterFailure ==
    (op \in C12_Ops /\ (LastFailed \/ iter.failed)) =>
        /\ calls' = calls
        /\ iter'.pulls = iter.pulls
        /\ pc' \notin CallPcs \cup {"exact_iter_pull", "exact_iter_extra"}

C12_OnePullAtATime ==
    op \in C12_Ops => iter'.pulls \in {iter.pulls, iter.pulls + 1}

C12_NoRetry ==
    /\ []C12_OncePerIndex
    /\ [][C12_AfterFailure /\ C12_OnePullAtATime]_vars

\* zip's f failed on its second pair and the run has ended.
C12_Witness ==
    op = "zip" /\ N = MaxN /\ LastFailed /\ FailedAt = 1 /\ pc = "done"

----------------------------------------------------------------------------
\* C13: a failure raised by f in generate, map, zip or fold is what the
\* caller observes. From the failed call on the run is leaving as "failed"
\* and ends with that outcome: no container or accumulator is returned, the
\* Builder's storage is never turned into a container, and the failure is
\* not replaced by a length mismatch (no from_iter abort, no None).
C13_FailureObserved ==
    (op \in {"generate", "map", "zip", "fold"} /\ LastFailed) =>
        /\ pc \in {"exit", "done"}
        /\ exitAs = "failed"
        /\ outcome = IF pc = "done" THEN "failed" ELSE "running"
        /\ result = <<>>
        /\ ~destination.inner
        /\ panicMsg = NoPanic

\* map's f failed on the last element and the caller has seen the failure.
C13_Witness ==
    /\ op = "map" /\ N = MaxN /\ LastFailed /\ FailedAt = N - 1
    /\ pc = "done" /\ outcome = "failed"

----------------------------------------------------------------------------
\* C14: a slice is converted to a container reference if and only if its
\* length is N. With length N, TryFrom (shared and mutable), from_slice and
\* from_mut_slice all return a view of the same N elements in the same order,
\* and nothing is moved or destroyed. With any other length the two TryFrom
\* conversions return LengthError and from_slice and from_mut_slice abort.
C14_SliceConversion ==
    (op \in SliceOps /\ pc = "done") =>
        /\ (outcome = "ok") <=> (Len(slice) = N)
        /\ outcome = "ok" =>
              /\ Len(result) = N
              /\ \A j \in 1..N : result[j] = slice[j]
        /\ Len(slice) # N =>
              /\ outcome = IF op \in {"try_from", "try_from_mut"} THEN "err" ELSE "abort"
              /\ result = <<>>
        /\ destroyed = <<>>

\* A mutable slice of MaxN elements was converted by TryFrom.
C14_Witness ==
    /\ op = "try_from_mut" /\ N = MaxN /\ pc = "done" /\ outcome = "ok"
    /\ Len(result) = MaxN

----------------------------------------------------------------------------
\* C15: with N = 0 the user function is never invoked, and generate, map and
\* zip return a container (whose slice view has no element), fold returns
\* init unchanged, from_exact_iter over an empty source returns a container,
\* and the view of an empty slice has no element.
C15_ZeroLength ==
    N = 0 =>
        /\ pc \notin CallPcs
        /\ calls = <<>>
        /\ (op \in {"generate", "map", "zip"} /\ Finished) =>
              /\ outcome = "ok"
              /\ result = <<>>
              /\ AsSlice(result) = <<>>
        /\ (op = "fold" /\ Finished) =>
              /\ outcome = "ok"
              /\ result = <<init>>
        /\ (op = "from_exact_iter" /\ Finished /\ YieldsExactly(iter, 0) /\ ~iter.failed) =>
              /\ outcome = "ok"
              /\ result = <<>>
        /\ (op \in SliceOps /\ Finished /\ slice = <<>>) =>
              /\ outcome = "ok"
              /\ Len(result) = 0

\* generate for N = 0 has returned its empty container.
C15_Witness ==
    N = 0 /\ op = "generate" /\ pc = "done" /\ outcome = "ok" /\ result = <<>>

----------------------------------------------------------------------------
\* C16: in generate, from_iter, from_exact_iter, map and zip the Builder's
\* storage is turned into a container (into_inner) only when its counter
\* equals N, every slot being written by then; a run that ends with the
\* counter below N ends abandoned by a failure, with None or with the abort,
\* and returns no container.
C16_Ops == {"generate", "from_iter", "from_exact_iter", "map", "zip"}

C16_IntoInnerOnlyFull ==
    op \in C16_Ops =>
        /\ (pc = "into_inner" \/ destination.inner) =>
              /\ destination.position = N
              /\ \A j \in 1..N : destination.array[j] # Uninit
        /\ (Finished /\ outcome = "ok") =>
              /\ destination.inner
              /\ result = destination.array
        /\ (Finished /\ destination.position < N) =>
              /\ outcome \in {"failed", "none", "abort"}
              /\ ~destination.inner
              /\ result = <<>>

\* from_iter stopped with fewer than N items written and aborted.
C16_Witness ==
    /\ op = "from_iter" /\ N = MaxN /\ pc = "done" /\ outcome = "abort"
    /\ destination.position = N - 1 /\ ~destination.inner

----------------------------------------------------------------------------
\* C17: whenever untrusted code can run or fail (f is being called, or the
\* external source is being pulled), the Builder's counter k is within 0..N
\* and counts the slots written, which are the slots [0, k), slot j holding
\* the j-th value produced; and each Consumer's counter k is within 0..N and
\* counts the elements moved out, which are the elements of slots [0, k),
\* each handed to f exactly once. At every step a counter stays or grows by
\* one and a written slot is not written again.
UntrustedPcs ==
    CallPcs \cup {"from_iter_pull", "from_iter_extra", "exact_iter_pull", "exact_iter_extra"}

C17_BuilderOps == {"generate", "from_iter", "from_exact_iter", "map", "zip", "zip2"}

C17_Consumers ==
    CASE op \in {"map", "fold"} -> {source}
      [] op = "zip" -> {left, right}
      [] op = "zip2" -> {right}
      [] OTHER -> {}

\* The j-th value the operation produces for its Builder (j from 1).
ProducedAt(j) ==
    IF op \in {"from_iter", "from_exact_iter"} THEN IterItem(iter, j - 1) ELSE calls[j].ret

\* How many times the element e has been handed to f, the call in progress included.
HandedToF(e) ==
    Cardinality({p \in (1..Len(calls)) \X (1..2) :
                    p[2] <= Len(calls[p[1]].args) /\ calls[p[1]].args[p[2]] = e})
        + Cardinality({i \in 1..Len(args) : args[i] = e})

C17_AtUntrusted ==
    pc \in UntrustedPcs =>
        /\ op \in C17_BuilderOps =>
              /\ destination.position \in 0..N
              /\ Cardinality({j \in 1..N : destination.array[j] # Uninit})
                    = destination.position
              /\ \A j \in 1..N :
                    destination.array[j] =
                        IF j <= destination.position THEN ProducedAt(j) ELSE Uninit
        /\ \A c \in C17_Consumers :
              /\ c.position \in 0..N
              /\ c.position = c.iter
              /\ \A j \in 1..N :
                    HandedToF(c.array[j]) = IF j <= c.position THEN 1 ELSE 0

C17_Step ==
    /\ destination'.position \in {destination.position, destination.position + 1}
    /\ source'.position \in {source.position, source.position + 1}
    /\ left'.position \in {left.position, left.position + 1}
    /\ right'.position \in {right.position, right.position + 1}
    /\ \A j \in 1..Len(destination.array) :
          destination.array[j] # Uninit => destination'.array[j] = destination.array[j]
    /\ source'.array = source.array /\ left'.array = left.array /\ right'.array = right.array

C17_Counters == []C17_AtUntrusted /\ [][C17_Step]_vars

\* zip's f is being called with the last pair, all earlier outputs written.
C17_Witness ==
    /\ op = "zip" /\ N = MaxN /\ pc = "f"
    /\ left.position = N /\ right.position = N /\ destination.position = N - 1

----------------------------------------------------------------------------
\* C18: map handles each element in the order: take the source element,
\* advance the source counter, call f, write the output, advance the
\* destination counter. So in every reachable state of map
\* destination counter <= source counter <= destination counter + 1; when f
\* is called with an element the source counter is already past it and the
\* destination counter is one behind; the source counter advances only from
\* equal counters, into a call of f, and the destination counter advances
\* only when that call returns.
C18_MapState ==
    op = "map" =>
        /\ destination.position <= source.position
        /\ source.position <= destination.position + 1
        /\ pc \in CallPcs =>
              /\ source.position = destination.position + 1
              /\ args = <<source.array[source.position]>>

C18_MapStep ==
    op = "map" =>
        /\ source'.position # source.position =>
              /\ source.position = destination.position
              /\ destination'.position = destination.position
              /\ destination'.array = destination.array
              /\ pc' \in CallPcs
              /\ args' = <<source.array[source.position + 1]>>
        /\ destination'.position # destination.position =>
              /\ pc \in CallPcs
              /\ source' = source
              /\ calls' = Append(calls, [args |-> args,
                                         ret |-> destination'.array[destination'.position]])
              /\ destination'.position = source.position

C18_MapOrder == []C18_MapState /\ [][C18_MapStep]_vars

\* map's f is being called with the second element.
C18_Witness ==
    /\ op = "map" /\ N = MaxN /\ pc = "f"
    /\ source.position = 2 /\ destination.position = 1

----------------------------------------------------------------------------
\* C19: as long as f has not failed, map, zip (inverted_zip) and
\* inverted_zip2 over inputs of the same length N never reach from_iter's
\* length-mismatch abort. The loop ends after N calls of f with the
\* destination counter at N; the pull after the loop yields nothing: f is
\* not called a further time, no item is dropped, and no input slot beyond
\* N - 1 is read; the run then returns its container.
C19_Inputs ==
    CASE op = "map" -> {source}
      [] OTHER -> {left, right}

C19_NoLengthAbort ==
    (op \in {"map", "zip", "zip2"} /\ ~LastFailed) =>
        /\ pc \notin {"f_extra", "from_iter_extra"}
        /\ exitAs # "abort" /\ outcome # "abort" /\ panicMsg = NoPanic
        /\ Len(calls) <= N
        /\ EventsBy("temporary") = <<>>
        /\ \A c \in C19_Inputs : Len(c.array) = N /\ c.iter <= N /\ c.position <= N
        /\ pc \in {"from_iter_check", "into_inner"} =>
              /\ destination.position = N
              /\ Len(calls) = N
              /\ \A c \in C19_Inputs : c.iter = N
        /\ Finished => outcome = "ok"

\* inverted_zip2 over MaxN pairs is past the pull after the loop.
C19_Witness ==
    /\ op = "zip2" /\ N = MaxN /\ pc = "into_inner"
    /\ Len(calls) = N /\ ~LastFailed

----------------------------------------------------------------------------
\* C20: whenever from_exact_iter returns the length-mismatch result (None),
\* every item it pulled from the source has been destroyed exactly once and
\* nothing else has: the k <= N items written to slots 0..k-1 are destroyed
\* by the abandoned Builder, and in the too-many case the one extra item,
\* item N, is destroyed as the temporary of the extra pull without ever
\* being written to a slot.
PulledItems == {k \in 0..(iter.pulls - 1) : IterItem(iter, k) # None}

C20_NoneDestroysPulled ==
    (op = "from_exact_iter" /\ pc = "done" /\ outcome = "none") =>
        /\ ~destination.inner /\ result = <<>>
        /\ PulledItems \subseteq 0..N
        /\ PulledItems \cap 0..(N - 1) = 0..(destination.position - 1)
        /\ Len(destroyed) = Cardinality(PulledItems)
        /\ \A k \in PulledItems :
              /\ Count(<<"item", k>>) = 1
              /\ k < N =>
                    /\ destination.array[k + 1].obj = <<"item", k>>
                    /\ CountBy("Builder", <<"item", k>>) = 1
              /\ k = N =>
                    /\ destination.position = N
                    /\ \A j \in 1..N : destination.array[j].obj # <<"item", k>>
                    /\ CountBy("temporary", <<"item", k>>) = 1

\* from_exact_iter of MaxN elements pulled one item too many and returned None.
C20_Witness ==
    /\ op = "from_exact_iter" /\ N = MaxN /\ pc = "done" /\ outcome = "none"
    /\ iter.pulls = N + 1 /\ Len(destroyed) = N + 1

====
